---- MODULE Spec2Model ----
(***************************************************************************)
(* Model of GeminiStorybook (src/gemini_storybook.py): the story-text      *)
(* phase with its fence extraction and fallback, the image-prompt phase    *)
(* and the external image generation hook.                                 *)
(*                                                                         *)
(* Text is modelled as a sequence of tokens; each token stands for the     *)
(* piece of text it spells.  The fence marker (three backticks) and the    *)
(* label "json" are tokens, so a JSON-labeled fence is the token pair      *)
(* <<FENCE, JSON_LABEL>>.  No other token contains a backtick, so substring*)
(* search, split and strip on token sequences agree with the same          *)
(* operations on the spelled-out text.                                     *)
(***************************************************************************)
EXTENDS Integers, Sequences, FiniteSets, TLC

VARIABLES
    pc,                  \* position in the code
    prompt, pages,       \* parameters of _generate_story_text
    response, text,      \* locals of _generate_story_text
    heap,                \* the story objects created so far
    story_data,          \* reference to the story being worked on (0: none)
    style,               \* parameter of _generate_image_prompts
    style_instructions,  \* local of _generate_image_prompts
    style_desc,          \* local of _generate_image_prompts
    idx,                 \* position of the page loop (1-based)
    result,              \* reference returned by the last operation (0: none)
    raised,              \* the exception that escaped, and from which method
    calls,               \* history: the calls made by the running method
    given                \* history: the story as the running method received it

vars == <<pc, prompt, pages, style, response, text, heap, story_data,
          style_instructions, style_desc, idx, calls, result, raised, given>>

(***************************************************************************)
(* Bounds                                                                  *)
(***************************************************************************)
\* largest page count a caller asks for
MaxPages == 2
\* largest number of pages in a JSON payload written by the model
MaxStoryPages == 2
\* largest number of blocks (prose, fences, payloads) in a model response
MaxBlocks == 2
\* largest number of tokens in the model's answer to an image-prompt request
MaxReplyLen == 2

(***************************************************************************)
(* Python string operations on token sequences                             *)
(***************************************************************************)
\* the token that spells three backticks (a backtick cannot occur in a TLA+ string)
FENCE == "<3 backticks>"
JSON_LABEL == "json"
WS == " "

\* index of the first occurrence of sep in s at or after position i, 0 if none
RECURSIVE Find(_, _, _)
Find(s, sep, i) ==
    IF i + Len(sep) - 1 > Len(s) THEN 0
    ELSE IF SubSeq(s, i, i + Len(sep) - 1) = sep THEN i
    ELSE Find(s, sep, i + 1)

\* Python: sep in s
Contains(sep, s) == Find(s, sep, 1) # 0

\* Python: s.split(sep), leftmost non-overlapping occurrences
RECURSIVE Split(_, _)
Split(s, sep) ==
    LET k == Find(s, sep, 1)
    IN  IF k = 0 THEN <<s>>
        ELSE <<SubSeq(s, 1, k - 1)>> \o Split(SubSeq(s, k + Len(sep), Len(s)), sep)

RECURSIVE LStrip(_)
LStrip(s) == IF s # <<>> /\ Head(s) = WS THEN LStrip(Tail(s)) ELSE s

RECURSIVE RStrip(_)
RStrip(s) ==
    IF s # <<>> /\ s[Len(s)] = WS THEN RStrip(SubSeq(s, 1, Len(s) - 1)) ELSE s

\* Python: s.strip()
Strip(s) == RStrip(LStrip(s))

RECURSIVE Flatten(_)
Flatten(ss) == IF ss = <<>> THEN <<>> ELSE Head(ss) \o Flatten(Tail(ss))

(***************************************************************************)
(* JSON values and their text                                              *)
(***************************************************************************)
\* a parsed dict is a function from its keys to their values; a page of the
\* format the prompt asks for
PayloadPage(i) == [page_num |-> i, text |-> <<"Scene ", ToString(i)>>]

PayloadPages(n) == [i \in 1..n |-> PayloadPage(i)]

PlainTitle == <<"Tale">>
\* a title whose text contains three backticks
FencedTitle == <<"a", FENCE, "b">>

PayloadStories ==
    {[title |-> PlainTitle, pages |-> PayloadPages(n)] : n \in 1..MaxStoryPages}
    \cup {[title |-> FencedTitle, pages |-> PayloadPages(1)]}

\* the values json.loads can return: Story-shaped dicts, a dict without
\* "pages", a dict without "title", and a value that is not a dict
JsonValues ==
    {[type |-> "dict", value |-> d] : d \in PayloadStories}
    \cup {[type |-> "dict", value |-> [title |-> PlainTitle]],
          [type |-> "dict", value |-> [pages |-> PayloadPages(1)]],
          [type |-> "list"]}

JsonString(s) == <<"\"">> \o s \o <<"\"">>

RECURSIVE JoinComma(_)
JoinComma(ss) ==
    IF ss = <<>> THEN <<>>
    ELSE IF Len(ss) = 1 THEN ss[1]
    ELSE ss[1] \o <<",">> \o JoinComma(Tail(ss))

PageText(p) ==
    <<"{", "\"page_num\":", ToString(p.page_num), ",", "\"text\":">>
    \o JsonString(p.text) \o <<"}">>

DictText(d) ==
    LET title == IF "title" \in DOMAIN d
                 THEN <<(<<"\"title\":">> \o JsonString(d.title))>> ELSE <<>>
        pgs   == IF "pages" \in DOMAIN d
                 THEN <<(<<"\"pages\":", "[">>
                         \o JoinComma([i \in 1..Len(d.pages) |-> PageText(d.pages[i])])
                         \o <<"]">>)>>
                 ELSE <<>>
    IN  <<"{">> \o JoinComma(title \o pgs) \o <<"}">>

\* the JSON document that spells value v
JsonText(v) == IF v.type = "dict" THEN DictText(v.value) ELSE <<"[", "]">>

JSONDecodeError == [type |-> "JSONDecodeError"]

\* json.loads: surrounding whitespace is skipped, the rest must spell a value
json_loads(s) ==
    LET doc == Strip(s)
    IN  IF \E v \in JsonValues : JsonText(v) = doc
        THEN CHOOSE v \in JsonValues : JsonText(v) = doc
        ELSE JSONDecodeError

(***************************************************************************)
(* Model responses                                                         *)
(***************************************************************************)
Docs == {JsonText(v) : v \in JsonValues}

JsonFenced(doc) == <<FENCE, JSON_LABEL, WS>> \o doc \o <<WS, FENCE>>

GenericFenced(doc) == <<FENCE, WS>> \o doc \o <<WS, FENCE>>

\* the pieces a response text is made of: prose (which is not JSON),
\* whitespace, a lone fence marker, a lone JSON-labeled fence opener, and a
\* JSON document, bare or fenced
Blocks ==
    {<<"Sorry">>, <<WS>>, <<FENCE>>, <<FENCE, JSON_LABEL>>}
    \cup Docs
    \cup {JsonFenced(doc) : doc \in Docs}
    \cup {GenericFenced(doc) : doc \in Docs}

ResponseTexts ==
    {Flatten(bs) : bs \in UNION {[1..n -> Blocks] : n \in 0..MaxBlocks}}

NoResponse == [kind |-> "none", text |-> <<>>]

\* what self.model.generate_content can do: raise, return a response whose
\* .text raises (no candidate), or return a response with a text
ServiceError == [kind |-> "raise", text |-> <<>>]

BlockedResponse == [kind |-> "blocked", text |-> <<>>]

TextOutcomes ==
    {ServiceError, BlockedResponse}
    \cup {[kind |-> "text", text |-> t] : t \in ResponseTexts}

(***************************************************************************)
(* Inputs                                                                  *)
(***************************************************************************)
Prompts == {"A dragon learning to fly", "A robot who bakes"}

PageCounts == 1..MaxPages

NoRaise == [op |-> "", exc |-> ""]

NoStory == [none |-> TRUE]

(***************************************************************************)
(* Story-text phase: _generate_story_text                                  *)
(***************************************************************************)
\* ExtractJson with the two fence tests in the wrong order
ExtractJson_GenericFirst(t) ==
    IF Contains(<<FENCE>>, t)
    THEN Strip(Split(Split(t, <<FENCE>>)[2], <<FENCE>>)[1])
    ELSE IF Contains(<<FENCE, JSON_LABEL>>, t)
    THEN Strip(Split(Split(t, <<FENCE, JSON_LABEL>>)[2], <<FENCE>>)[1])
    ELSE t

\* the text handed to json.loads: the content of the first JSON-labeled
\* fence, else of the first fence, else the whole text
ExtractJson(t) ==
    IF Contains(<<FENCE, JSON_LABEL>>, t)
    THEN Strip(Split(Split(t, <<FENCE, JSON_LABEL>>)[2], <<FENCE>>)[1])
    ELSE IF Contains(<<FENCE>>, t)
    THEN Strip(Split(Split(t, <<FENCE>>)[2], <<FENCE>>)[1])
    ELSE t

FallbackTitle == <<"A Magical Story">>

\* FallbackStory numbering the pages from 0 (i instead of i+1)
FallbackStory_ZeroBased(n) ==
    [title |-> FallbackTitle,
     pages |-> [i \in 1..n |->
                  [page_num |-> i - 1,
                   text |-> <<"Page ", ToString(i - 1), " of your story...">>]]]

FallbackStory(n) ==
    [title |-> FallbackTitle,
     pages |-> [i \in 1..n |->
                  [page_num |-> i,
                   text |-> <<"Page ", ToString(i), " of your story...">>]]]

\* the value the try block returns for the extracted text t: the parsed
\* value when json.loads succeeds and story_data['title'] can be read,
\* the fallback otherwise
StoryOf(t, n) ==
    LET v == json_loads(t)
    IN  IF v.type = "dict" /\ "title" \in DOMAIN v.value
        THEN v.value
        ELSE FallbackStory(n)

\* generate_story(prompt, pages, style) enters _generate_story_text(prompt,
\* pages).  The style argument is not read before _generate_image_prompts is
\* called with it, so the model draws it there (EnterImagePrompts).
CallGenerateStory ==
    /\ pc = "idle"
    /\ pc' = "text_call"
    /\ prompt' \in Prompts
    /\ pages' \in PageCounts
    /\ calls' = <<>>
    /\ UNCHANGED <<style, response, text, heap, story_data, style_instructions,
                   style_desc, idx, result, raised, given>>

\* response = self.model.generate_content(full_prompt), outside the try
ModelGenerateText ==
    /\ pc = "text_call"
    /\ \E out \in TextOutcomes :
         /\ calls' = Append(calls, [request |-> [prompt |-> prompt, pages |-> pages],
                                    reply |-> out])
         /\ IF out.kind = "raise"
            THEN /\ pc' = "raised"
                 /\ raised' = [op |-> "_generate_story_text", exc |-> "ServiceError"]
                 /\ UNCHANGED response
            ELSE /\ pc' = "text_extract"
                 /\ response' = out
                 /\ UNCHANGED raised
    /\ UNCHANGED <<prompt, pages, style, text, heap, story_data,
                   style_instructions, style_desc, idx, result, given>>

\* the story object is created and bound to story_data in generate_story;
\* the parameters and locals of _generate_story_text are gone
ReturnStory(d) ==
    /\ heap' = Append(heap, d)
    /\ story_data' = Len(heap) + 1
    /\ prompt' = ""
    /\ pages' = 0
    /\ response' = NoResponse
    /\ text' = <<>>
    /\ pc' = "text_returned"

\* text = response.text and the two fence branches; response.text raising
\* lands in the except clause
ExtractText ==
    /\ pc = "text_extract"
    /\ IF response.kind = "blocked"
       THEN ReturnStory(FallbackStory(pages))
       ELSE /\ text' = ExtractJson(response.text)
            /\ pc' = "text_loads"
            /\ UNCHANGED <<prompt, pages, response, heap, story_data>>
    /\ UNCHANGED <<style, style_instructions, style_desc, idx, calls, result,
                   raised, given>>

\* json.loads, the title print, return story_data, or the except clause
LoadStory ==
    /\ pc = "text_loads"
    /\ ReturnStory(StoryOf(text, pages))
    /\ UNCHANGED <<style, style_instructions, style_desc, idx, calls, result,
                   raised, given>>

(***************************************************************************)
(* Image-prompt phase: _generate_image_prompts                             *)
(***************************************************************************)
\* style names are sequences of characters
Uppers == <<"A", "B", "C", "D", "E", "F", "G", "H", "I", "J", "K", "L", "M",
            "N", "O", "P", "Q", "R", "S", "T", "U", "V", "W", "X", "Y", "Z">>

Lowers == <<"a", "b", "c", "d", "e", "f", "g", "h", "i", "j", "k", "l", "m",
            "n", "o", "p", "q", "r", "s", "t", "u", "v", "w", "x", "y", "z">>

LowerChar(c) ==
    IF \E i \in 1..Len(Uppers) : Uppers[i] = c
    THEN Lowers[CHOOSE i \in 1..Len(Uppers) : Uppers[i] = c]
    ELSE c

\* Python: s.lower()
lower(s) == [i \in 1..Len(s) |-> LowerChar(s[i])]

Watercolor == <<"w", "a", "t", "e", "r", "c", "o", "l", "o", "r">>
PixelArt == <<"p", "i", "x", "e", "l", " ", "a", "r", "t">>
Comics == <<"c", "o", "m", "i", "c", "s">>
Claymation == <<"c", "l", "a", "y", "m", "a", "t", "i", "o", "n">>
Crochet == <<"c", "r", "o", "c", "h", "e", "t">>
ColoringBook == <<"c", "o", "l", "o", "r", "i", "n", "g", " ", "b", "o", "o", "k">>

\* the dict literal bound to style_instructions
StyleCatalog ==
    (Watercolor :> "soft watercolor painting, gentle brush strokes, pastel colors")
    @@ (PixelArt :> "8-bit pixel art style, retro gaming aesthetic, vibrant colors")
    @@ (Comics :> "comic book illustration, bold lines, dynamic action poses")
    @@ (Claymation :> "claymation style, clay figures, tactile textures")
    @@ (Crochet :> "crochet/yarn art style, soft textile textures")
    @@ (ColoringBook :> "black and white line art, coloring book style")

GenericStyle == "high-quality children's book illustration"

\* Python: d.get(k, default)
DictGet(d, k, default) == IF k \in DOMAIN d THEN d[k] ELSE default

\* ResolveStyle without the lower-casing
ResolveStyle_CaseSensitive(catalog, st) == DictGet(catalog, st, GenericStyle)

\* style_desc = style_instructions.get(style.lower(), <generic>)
ResolveStyle(catalog, st) == DictGet(catalog, lower(st), GenericStyle)

\* Python: d[k] = v
DictPut(d, k, v) == [f \in DOMAIN d \cup {k} |-> IF f = k THEN v ELSE d[f]]

NoCatalog == [k \in {} |-> ""]

NoStyle == <<"<none>">>

StyleNames ==
    DOMAIN StyleCatalog
    \cup {<<"P", "i", "x", "e", "l", " ", "A", "r", "t">>,
          <<"P", "I", "X", "E", "L", " ", "A", "R", "T">>,
          <<"C", "o", "m", "i", "c", "s">>,
          <<"o", "r", "i", "g", "a", "m", "i">>,
          <<"O", "r", "i", "g", "a", "m", "i">>,
          <<"p", "i", "x", "e", "l", "a", "r", "t">>,
          <<>>}

ReplyTexts == UNION {[1..n -> {WS, "A dragon"}] : n \in 0..MaxReplyLen}

PromptOutcomes ==
    {ServiceError, BlockedResponse}
    \cup {[kind |-> "text", text |-> t] : t \in ReplyTexts}

\* StorePrompt writing to the first page whatever the loop position
StorePrompt_FirstPage(h, ref, i, v) ==
    [h EXCEPT ![ref].pages[1] = DictPut(@, "image_prompt", v)]

\* page["image_prompt"] = v on page i of the story at ref
StorePrompt(h, ref, i, v) ==
    [h EXCEPT ![ref].pages[i] = DictPut(@, "image_prompt", v)]

\* _generate_image_prompts(story_data, style): style_instructions, style_desc
\* and the evaluation of story_data["pages"] that starts the loop
EnterImagePrompts ==
    /\ pc = "text_returned"
    /\ style' \in StyleNames
    /\ style_instructions' = StyleCatalog
    /\ style_desc' = ResolveStyle(style_instructions', style')
    /\ calls' = <<>>
    /\ given' = heap[story_data]
    /\ IF "pages" \in DOMAIN heap[story_data]
       THEN /\ pc' = "prompts_loop"
            /\ idx' = 1
            /\ UNCHANGED raised
       ELSE /\ pc' = "raised"
            /\ raised' = [op |-> "_generate_image_prompts", exc |-> "KeyError"]
            /\ UNCHANGED idx
    /\ UNCHANGED <<prompt, pages, response, text, heap, story_data, result>>

\* GeneratePagePrompt with the failure of a page's call swallowed: the page
\* is left without a prompt and the loop goes on
GeneratePagePrompt_SkipFailed ==
    /\ pc = "prompts_loop"
    /\ idx <= Len(heap[story_data].pages)
    /\ \E out \in PromptOutcomes :
       LET page == heap[story_data].pages[idx]
       IN  /\ calls' = Append(calls,
                              [page |-> idx,
                               request |-> [page_text |-> page.text,
                                            style |-> style_desc,
                                            title |-> heap[story_data].title],
                               reply |-> out])
           /\ heap' = IF out.kind = "text"
                      THEN StorePrompt(heap, story_data, idx, Strip(out.text))
                      ELSE heap
           /\ idx' = idx + 1
           /\ UNCHANGED <<pc, raised>>
    /\ UNCHANGED <<prompt, pages, style, response, text, story_data,
                   style_instructions, style_desc, result, given>>

\* one iteration of the loop: build the request, call the model, store the
\* stripped reply on the page
GeneratePagePrompt ==
    /\ pc = "prompts_loop"
    /\ idx <= Len(heap[story_data].pages)
    /\ \E out \in PromptOutcomes :
       LET page == heap[story_data].pages[idx]
       IN  /\ calls' = Append(calls,
                              [page |-> idx,
                               request |-> [page_text |-> page.text,
                                            style |-> style_desc,
                                            title |-> heap[story_data].title],
                               reply |-> out])
           /\ IF out.kind = "text"
              THEN /\ heap' = StorePrompt(heap, story_data, idx, Strip(out.text))
                   /\ idx' = idx + 1
                   /\ UNCHANGED <<pc, raised>>
              ELSE /\ pc' = "raised"
                   /\ raised' = [op |-> "_generate_image_prompts",
                                 exc |-> IF out.kind = "raise" THEN "ServiceError"
                                         ELSE "ValueError"]
                   /\ UNCHANGED <<heap, idx>>
    /\ UNCHANGED <<prompt, pages, style, response, text, story_data,
                   style_instructions, style_desc, result, given>>

\* the loop is exhausted: return story_data, which generate_story returns
ReturnImagePrompts ==
    /\ pc = "prompts_loop"
    /\ idx > Len(heap[story_data].pages)
    /\ pc' = "story_done"
    /\ result' = story_data
    /\ UNCHANGED <<prompt, pages, style, response, text, heap, story_data,
                   style_instructions, style_desc, idx, calls, raised, given>>

(***************************************************************************)
(* External image generation hook: generate_with_images                    *)
(***************************************************************************)
ImageResults == {"page_a.png", "page_b.png"}

FuncOutcomes ==
    {[kind |-> "raise", value |-> ""]}
    \cup {[kind |-> "value", value |-> r] : r \in ImageResults}

\* ImageArgs passing the page text instead of the image prompt
ImageArgs_PageText(page) == <<page.text>>

\* the argument list of image_generator_func(page["image_prompt"])
ImageArgs(page) == <<page.image_prompt>>

\* page["image"] = v on page i of the story at ref
StoreImage(h, ref, i, v) ==
    [h EXCEPT ![ref].pages[i] = DictPut(@, "image", v)]

\* the caller hands the generated story to generate_with_images
CallGenerateWithImages ==
    /\ pc = "story_done"
    /\ pc' = "images_loop"
    /\ idx' = 1
    /\ calls' = <<>>
    /\ result' = 0
    /\ style' = NoStyle
    /\ style_instructions' = NoCatalog
    /\ style_desc' = ""
    /\ given' = heap[story_data]
    /\ UNCHANGED <<prompt, pages, response, text, heap, story_data, raised>>

\* one iteration: image_generator_func(page["image_prompt"]), page["image"]
GenerateImage ==
    /\ pc = "images_loop"
    /\ idx <= Len(heap[story_data].pages)
    /\ \E out \in FuncOutcomes :
       LET page == heap[story_data].pages[idx]
       IN  /\ calls' = Append(calls, [page |-> idx,
                                      request |-> ImageArgs(page),
                                      reply |-> out])
           /\ IF out.kind = "value"
              THEN /\ heap' = StoreImage(heap, story_data, idx, out.value)
                   /\ idx' = idx + 1
                   /\ UNCHANGED <<pc, raised>>
              ELSE /\ pc' = "raised"
                   /\ raised' = [op |-> "generate_with_images", exc |-> "Exception"]
                   /\ UNCHANGED <<heap, idx>>
    /\ UNCHANGED <<prompt, pages, style, response, text, story_data,
                   style_instructions, style_desc, result, given>>

\* the loop is exhausted: return story_data
ReturnImages ==
    /\ pc = "images_loop"
    /\ idx > Len(heap[story_data].pages)
    /\ pc' = "images_done"
    /\ result' = story_data
    /\ UNCHANGED <<prompt, pages, style, response, text, heap, story_data,
                   style_instructions, style_desc, idx, calls, raised, given>>

(***************************************************************************)
(* Specification                                                           *)
(***************************************************************************)
Init ==
    /\ pc = "idle"
    /\ prompt = ""
    /\ pages = 0
    /\ style = NoStyle
    /\ response = NoResponse
    /\ text = <<>>
    /\ heap = <<>>
    /\ story_data = 0
    /\ style_instructions = NoCatalog
    /\ style_desc = ""
    /\ idx = 0
    /\ calls = <<>>
    /\ result = 0
    /\ raised = NoRaise
    /\ given = NoStory

Next ==
    \/ CallGenerateStory
    \/ ModelGenerateText
    \/ ExtractText
    \/ LoadStory
    \/ EnterImagePrompts
    \/ GeneratePagePrompt
    \/ ReturnImagePrompts
    \/ CallGenerateWithImages
    \/ GenerateImage
    \/ ReturnImages

Spec == Init /\ [][Next]_vars

(***************************************************************************)
(* Properties                                                              *)
(***************************************************************************)
\* the story text phase has returned into generate_story; calls[1] is its
\* one model call
TextReturned == pc = "text_returned"

Story == heap[story_data]

DictWithout(d, k) == [f \in DOMAIN d \ {k} |-> d[f]]

\* what json.loads makes of the text the phase extracts from a reply
ParsedReply(reply) == json_loads(ExtractJson(reply.text))

StoryShaped(v) == v.type = "dict" /\ {"title", "pages"} \subseteq DOMAIN v.value

\* C1: whatever the model answers, the story returned by
\* _generate_story_text(prompt, page_count) has exactly page_count pages,
\* on the parsed path as well as on the fallback path.
C1_PageCountGuaranteed ==
    TextReturned =>
        /\ "pages" \in DOMAIN Story
        /\ Len(Story.pages) = calls[1].request.pages

\* C2: no exception escapes _generate_story_text, not even one raised by
\* the model call itself.
C2_TextPhaseNeverRaises == raised.op # "_generate_story_text"

\* C3: when the reply cannot be turned into the Story shape (malformed JSON,
\* or JSON without the title key or without the pages key), the phase
\* returns the fallback story and not the incomplete parsed value.
C3_IncompleteGivesFallback ==
    (TextReturned /\ calls[1].reply.kind = "text"
                  /\ ~StoryShaped(ParsedReply(calls[1].reply)))
        => Story = FallbackStory(calls[1].request.pages)

\* C4: a reply that is a valid Story-shaped JSON payload, unfenced, in a
\* JSON-labeled fence or in a generic fence, is returned as exactly that
\* payload.
C4_PayloadReturnedExactly ==
    TextReturned =>
        \A d \in PayloadStories :
            (/\ calls[1].reply.kind = "text"
             /\ calls[1].reply.text \in {DictText(d), JsonFenced(DictText(d)),
                                         GenericFenced(DictText(d))})
                => Story = d

\* positions of the fence markers, and of the JSON-labeled ones, in text t
FenceStarts(t) == {i \in 1..Len(t) : t[i] = FENCE}

JsonFenceStarts(t) ==
    {i \in 1..(Len(t) - 1) : t[i] = FENCE /\ t[i + 1] = JSON_LABEL}

Least(S) == CHOOSE x \in S : \A y \in S : x <= y

\* the text from position from up to the next fence marker (or the end)
ContentFrom(t, from) ==
    LET later == {i \in FenceStarts(t) : i >= from}
    IN  SubSeq(t, from, IF later = {} THEN Len(t) ELSE Least(later) - 1)

\* C5: the text parsed is the (trimmed) content between the first
\* JSON-labeled fence and the next fence marker if the reply has a
\* JSON-labeled fence; otherwise the (trimmed) content of the first fence if
\* it has any fence; otherwise the reply unmodified.  So with both kinds of
\* fence present, in either order, the JSON-labeled one is parsed.
C5_ExtractionOrder ==
    pc = "text_loads" =>
        LET t == response.text
        IN  text = IF JsonFenceStarts(t) # {}
                   THEN Strip(ContentFrom(t, Least(JsonFenceStarts(t)) + 2))
                   ELSE IF FenceStarts(t) # {}
                   THEN Strip(ContentFrom(t, Least(FenceStarts(t)) + 1))
                   ELSE t

\* a generic fence around one story followed by a JSON-labeled fence around
\* another: the second one is the text parsed
C5_Witness ==
    /\ pc = "text_loads"
    /\ response.text = GenericFenced(DictText([title |-> PlainTitle])) \o
                       JsonFenced(DictText([title |-> PlainTitle,
                                            pages |-> PayloadPages(2)]))
    /\ text = DictText([title |-> PlainTitle, pages |-> PayloadPages(2)])

\* the reply is failing (its text cannot be read) or what is extracted from
\* it is not JSON
FailingOrUnparseable(reply) ==
    \/ reply.kind = "blocked"
    \/ reply.kind = "text" /\ ParsedReply(reply) = JSONDecodeError

\* C6: for a failing or unparseable reply the story returned has the fixed
\* placeholder title and exactly page_count pages, page i has page_num i and
\* a non-empty text that embeds i, and the phase made exactly one model call.
C6_FallbackStory ==
    (TextReturned /\ FailingOrUnparseable(calls[1].reply)) =>
        /\ Len(calls) = 1
        /\ DOMAIN Story = {"title", "pages"}
        /\ Story.title = <<"A Magical Story">>
        /\ Len(Story.pages) = calls[1].request.pages
        /\ \A i \in 1..Len(Story.pages) :
              /\ Story.pages[i].page_num = i
              /\ Story.pages[i].text # <<>>
              /\ \E k \in 1..Len(Story.pages[i].text) :
                    Story.pages[i].text[k] = ToString(i)

C6_Witness ==
    /\ TextReturned
    /\ calls[1].reply.kind = "text"
    /\ calls[1].reply.text = <<"Sorry">>
    /\ calls[1].request.pages = 2
    /\ Len(Story.pages) = 2
    /\ Story.pages[2].page_num = 2

\* name a equals the lower-case name b once its capitals are lower-cased
LowersTo(a, b) ==
    /\ Len(a) = Len(b)
    /\ \A i \in 1..Len(a) :
          \/ a[i] = b[i]
          \/ \E k \in 1..Len(Uppers) : Uppers[k] = a[i] /\ Lowers[k] = b[i]

\* C7: a style name that equals a catalog key after lower-casing resolves
\* to that key's description, every other name to the generic description,
\* and the catalog is what it was built as.
C7_StyleResolution ==
    style # NoStyle =>
        /\ style_instructions = StyleCatalog
        /\ \A key \in DOMAIN StyleCatalog :
              LowersTo(style, key) => style_desc = StyleCatalog[key]
        /\ (\A key \in DOMAIN StyleCatalog : ~LowersTo(style, key))
              => style_desc = "high-quality children's book illustration"

\* "Pixel Art" resolved to the description of "pixel art"
C7_Witness ==
    /\ pc = "story_done"
    /\ style = <<"P", "i", "x", "e", "l", " ", "A", "r", "t">>
    /\ style_desc = "8-bit pixel art style, retro gaming aesthetic, vibrant colors"

\* C8: after _generate_image_prompts returns, every page has an image_prompt
\* that is non-empty and has no leading or trailing whitespace.
C8_PromptsNonEmptyAndTrimmed ==
    pc = "story_done" =>
        \A i \in 1..Len(Story.pages) :
            LET ip == Story.pages[i].image_prompt
            IN  /\ ip # <<>>
                /\ ip[1] # WS
                /\ ip[Len(ip)] # WS

\* C9: _generate_image_prompts makes exactly one model call per page, in
\* page order, each for the text of its own page; each (trimmed) reply is
\* stored on the page it was requested for; the story returned is the
\* object given, with title, page order, page_num and text unchanged.
C9_OneCallPerPageInOrder ==
    /\ pc = "prompts_loop" =>
          /\ Len(calls) = idx - 1
          /\ \A i \in 1..Len(calls) : calls[i].page = i
    /\ pc = "story_done" =>
          /\ result = story_data
          /\ Len(heap) = 1
          /\ Story.title = given.title
          /\ Len(Story.pages) = Len(given.pages)
          /\ Len(calls) = Len(given.pages)
          /\ \A i \in 1..Len(calls) :
                /\ calls[i].page = i
                /\ calls[i].request.page_text = given.pages[i].text
                /\ calls[i].reply.kind = "text"
                /\ "image_prompt" \in DOMAIN Story.pages[i]
                /\ Story.pages[i].image_prompt = Strip(calls[i].reply.text)
                /\ DictWithout(Story.pages[i], "image_prompt") = given.pages[i]

\* two pages, each carrying the reply to its own request
C9_Witness ==
    /\ pc = "story_done"
    /\ Len(Story.pages) = 2
    /\ calls[1].reply.text = <<"A dragon">>
    /\ calls[2].reply.text = <<"A dragon", "A dragon">>
    /\ Story.pages[1].image_prompt = <<"A dragon">>
    /\ Story.pages[2].image_prompt = <<"A dragon", "A dragon">>

FailedPageCall(i) ==
    /\ "page" \in DOMAIN calls[i]
    /\ calls[i].reply.kind \notin {"text", "value"}

\* C11: in _generate_image_prompts and generate_with_images a failure of the
\* call made for page k propagates to the caller: the exception escapes from
\* that method, the failing call is the k-th and last call (no retry, no
\* call for a later page), and no story is returned, by the method or by
\* generate_story.
C11_FailurePropagates ==
    \A i \in 1..Len(calls) :
        FailedPageCall(i) =>
            /\ pc = "raised"
            /\ raised.op \in {"_generate_image_prompts", "generate_with_images"}
            /\ raised.exc # ""
            /\ i = Len(calls)
            /\ \A j \in 1..i : calls[j].page = j
            /\ idx = i
            /\ result = 0

\* the model call for page 1 of a two-page story failed: one call was made,
\* none for page 2, and nothing was returned
C11_Witness ==
    /\ pc = "raised"
    /\ raised.op = "_generate_image_prompts"
    /\ Len(calls) = 1
    /\ "pages" \in DOMAIN Story
    /\ Len(Story.pages) = 2
    /\ calls[1].page = 1
    /\ calls[1].reply.kind = "raise"
    /\ "image_prompt" \notin DOMAIN Story.pages[2]
    /\ result = 0

====
